---- MODULE Spec2Model ----
(***************************************************************************)
(* A model of src/benchmark.ts: the single-request prober                  *)
(* benchmarkOllamaWithLangchain, the run coordinator runBenchmark and the  *)
(* top-level loop that launches testRuns coordinators without awaiting     *)
(* them.                                                                   *)
(*                                                                         *)
(* JavaScript runs every piece of code between two awaits to completion,   *)
(* so an action of the model is one such piece: the code from the          *)
(* resumption of an await up to the next await (or to the end, or to a     *)
(* throw).  Numbers of type double are modelled as exact non-negative      *)
(* rationals <<n, d>> in lowest terms, with <<0, 0>> for NaN and <<1, 0>>  *)
(* for Infinity.                                                           *)
(***************************************************************************)
EXTENDS Integers, Sequences, FiniteSets, TLC

\* ---------------------------------------------------------------- bounds
MaxRuns == 2
MaxTests == 2
MaxClock == 1

\* ------------------------------------------------------------- constants
NanosPerSecond == 1000000000
WarmupPrompt == "Hello"
ModelName == "gemma2:2b"
\* The prompts a configuration may list, in order; none is the warm-up prompt.
AllPrompts == << "2+2=?", "q2", "q3", "q4" >>
TestLists == { SubSeq(AllPrompts, 1, n) : n \in 0..MaxTests }
Runs == 1..MaxRuns

\* --------------------------------------------------------------- numbers
NaN == << 0, 0 >>
Infinity == << 1, 0 >>

RECURSIVE GCD(_, _)
GCD(a, b) == IF b = 0 THEN a ELSE GCD(b, a % b)

\* n / d as a double: 0/0 is NaN, x/0 is Infinity.
Norm(n, d) ==
    IF d = 0
    THEN (IF n = 0 THEN NaN ELSE Infinity)
    ELSE LET g == GCD(n, d) IN << n \div g, d \div g >>

Num(k) == << k, 1 >>

NumAdd(x, y) ==
    IF x = NaN \/ y = NaN THEN NaN
    ELSE IF x[2] = 0 \/ y[2] = 0 THEN Infinity
    ELSE Norm(x[1] * y[2] + y[1] * x[2], x[2] * y[2])

NumDiv(x, y) ==
    IF x = NaN \/ y = NaN THEN NaN
    ELSE IF x[2] = 0 THEN (IF y[2] = 0 THEN NaN ELSE Infinity)
    ELSE IF y[2] = 0 THEN Num(0)
    ELSE Norm(x[1] * y[2], x[2] * y[1])

\* Number.prototype.toFixed(2): the nearest multiple of 1/100, the larger one
\* on a tie; NaN and Infinity print as themselves.
ToFixed2(x) ==
    IF x[2] = 0 THEN x
    ELSE Norm((200 * x[1] + x[2]) \div (2 * x[2]), 100)

\* ------------------------------------------------------------ the server
\* The usage metadata the endpoint may return for one request.
Metas ==
    { [total_duration |-> 2000000000, input_tokens |-> 5, output_tokens |-> 1, total_tokens |-> 6],
      [total_duration |-> 2000000000, input_tokens |-> 3, output_tokens |-> 1, total_tokens |-> 4],
      [total_duration |-> 4000000, input_tokens |-> 5, output_tokens |-> 1, total_tokens |-> 6] }

\* The metadata of the answers when several runs share the server.
ConcMetas ==
    { [total_duration |-> 2000000000, input_tokens |-> 5, output_tokens |-> 1, total_tokens |-> 6] }

\* The answer to request k of run r (k = 0 is the warm-up): its text names the
\* request it answers, so that an answer recorded in the wrong place shows.
Reply(r, k, meta) ==
    [content |-> << r, k >>,
     total_duration |-> meta.total_duration,
     input_tokens |-> meta.input_tokens,
     output_tokens |-> meta.output_tokens,
     total_tokens |-> meta.total_tokens]

\* ------------------------------------------------------------ the prober
benchmarkOllamaWithLangchain(input, reply) ==
    LET totalDurationSeconds == NumDiv(Num(reply.total_duration), Num(NanosPerSecond))
        tokensPerSecond == NumDiv(Num(reply.total_tokens), totalDurationSeconds)
    IN  [query |-> input,
         model |-> ModelName,
         tokensPerSecond |-> tokensPerSecond,
         response |-> reply.content,
         elapsedTime |-> totalDurationSeconds,
         inputTokens |-> reply.input_tokens,
         outputTokens |-> reply.output_tokens,
         totalTokens |-> reply.total_tokens]

\* ------------------------------------------------------- the aggregation
\* As ReduceInt, with the accumulator overwritten instead of added to.
RECURSIVE ReduceIntOverwrites(_, _, _)
ReduceIntOverwrites(rs, f, acc) ==
    IF rs = << >> THEN acc ELSE ReduceIntOverwrites(Tail(rs), f, Head(rs)[f])

\* results.reduce((acc, r) => acc + r[f], 0) over an integer field f.
RECURSIVE ReduceInt(_, _, _)
ReduceInt(rs, f, acc) ==
    IF rs = << >> THEN acc ELSE ReduceInt(Tail(rs), f, acc + Head(rs)[f])

\* results.reduce((acc, r) => acc + r[f], 0) over a fractional field f; each
\* step's accumulator is bound to its value before the next step uses it.
RECURSIVE ReduceNum(_, _, _)
ReduceNum(rs, f, acc) ==
    IF rs = << >> THEN acc
    ELSE CHOOSE total \in { ReduceNum(Tail(rs), f, a) : a \in { NumAdd(acc, Head(rs)[f]) } } : TRUE

\* As averageTokensPerSecond, computed as total tokens over total time.
TotalOverTotal(rs) ==
    NumDiv(Num(ReduceInt(rs, "totalTokens", 0)), ReduceNum(rs, "elapsedTime", Num(0)))

\* The mean of the per-test rates.
averageTokensPerSecond(rs) ==
    NumDiv(ReduceNum(rs, "tokensPerSecond", Num(0)), Num(Len(rs)))

\* The totals and averages computed before the summary is rendered.
Aggregate(rs) ==
    LET totalTime == ReduceNum(rs, "elapsedTime", Num(0))
        totalInputTokens == ReduceInt(rs, "inputTokens", 0)
        totalOutputTokens == ReduceInt(rs, "outputTokens", 0)
        totalTokens == ReduceInt(rs, "totalTokens", 0)
    IN  [totalTime |-> totalTime,
         totalInputTokens |-> totalInputTokens,
         totalOutputTokens |-> totalOutputTokens,
         totalTokens |-> totalTokens,
         averageTime |-> NumDiv(totalTime, Num(Len(rs))),
         averageInputTokens |-> NumDiv(Num(totalInputTokens), Num(Len(rs))),
         averageOutputTokens |-> NumDiv(Num(totalOutputTokens), Num(Len(rs))),
         averageTotalTokens |-> NumDiv(Num(totalTokens), Num(Len(rs))),
         averageTokensPerSecond |-> averageTokensPerSecond(rs)]

\* As SummaryThrows, had the template read results[0]?.model.
SummaryNeverThrows(rs) == FALSE

\* Rendering the summary reads results[0].model: a TypeError when results is
\* empty, since results[0] is then undefined.
SummaryThrows(rs) == Len(rs) = 0

\* The summary section, one field per row of the rendered table.
summaryTemplate(a, rs, prompts) ==
        [Model |-> rs[1].model,
         TotalTests |-> Len(rs),
         TotalTime |-> ToFixed2(a.totalTime),
         TotalPromptTokens |-> a.totalInputTokens,
         TotalResponseTokens |-> a.totalOutputTokens,
         TotalTokens |-> a.totalTokens,
         AverageTime |-> ToFixed2(a.averageTime),
         AveragePromptTokens |-> a.averageInputTokens,
         AverageResponseTokens |-> a.averageOutputTokens,
         AverageTokens |-> a.averageTotalTokens,
         Score |-> ToFixed2(a.averageTokensPerSecond),
         TestPrompts |-> prompts]

\* The detail section "## Test i" of one result.
template(i, result) ==
    [Test |-> i,
     Time |-> ToFixed2(result.elapsedTime),
     PromptTokens |-> result.inputTokens,
     ResponseTokens |-> result.outputTokens,
     TokensTotal |-> result.totalTokens,
     Score |-> ToFixed2(result.tokensPerSecond),
     Prompt |-> result.query,
     Response |-> result.response]

\* new Date().toISOString() with ':' and '.' replaced by '-': the clock's
\* milliseconds as <<seconds, milliseconds of the second>>.
benchmarkDateTimeOf(ms) == << ms \div 1000, ms % 1000 >>
Stamps == { benchmarkDateTimeOf(t) : t \in 0..MaxClock }

\* ----------------------------------------------------------------- state
VARIABLES
    tests,              \* the prompt list passed to every run
    testRuns,           \* the configured number of runs
    launched,           \* the top-level loop's i: runs launched so far
    now,                \* the wall clock, in milliseconds
    proc,               \* "running", or "crashed" once the process has died
    pc,                 \* pc[r]: where run r is suspended
    benchmarkDateTime,  \* benchmarkDateTime[r]: run r's file-name timestamp
    results,            \* results[r]: run r's recorded results
    inflight,           \* inflight[r]: the operations run r is awaiting
    ops,                \* ops[r]: every operation run r has started, in order
    aggregate,          \* aggregate[r]: run r's totals and averages, once computed
    error,              \* error[r]: what made run r throw, or "none"
    files               \* files[stamp]: the sections appended to that report

vars == << tests, testRuns, launched, now, proc, pc, benchmarkDateTime,
           results, inflight, ops, aggregate, error, files >>

WarmupOp == [kind |-> "warmup", idx |-> 0]
TestOp(k) == [kind |-> "test", idx |-> k]
SummaryOp == [kind |-> "summary", idx |-> 0]
DetailOp(k) == [kind |-> "detail", idx |-> k]

Init ==
    /\ tests \in TestLists
    /\ testRuns \in 1..MaxRuns
    /\ launched = 0
    /\ now = 0
    /\ proc = "running"
    /\ pc = [r \in Runs |-> "idle"]
    /\ benchmarkDateTime = [r \in Runs |-> << >>]
    /\ results = [r \in Runs |-> << >>]
    /\ inflight = [r \in Runs |-> {}]
    /\ ops = [r \in Runs |-> << >>]
    /\ aggregate = [r \in Runs |-> << >>]
    /\ error = [r \in Runs |-> "none"]
    /\ files = [s \in Stamps |-> << >>]

\* --------------------------------------------------------------- helpers
\* As LoopContinues, with the loop ending one prompt early.
LoopEndsEarly(k, n) == k + 1 < n

\* for (const [i, test] of tests.entries()): with k results pushed, the loop
\* runs another iteration exactly when a prompt is left.
LoopContinues(k, n) == k < n

\* As Heatup, with the warm-up's result recorded.
HeatupRecorded(rs, result) == Append(rs, result)

\* await benchmarkOllamaWithLangchain('Hello', ...): the value is dropped.
Heatup(rs, result) == rs

\* As Push, with results.unshift(result).
Unshift(rs, result) == << result >> \o rs

\* results.push(result)
Push(rs, result) == Append(rs, result)

\* As AfterReject, with the failed operation issued again.
RetryAfterReject(op) == {op}

\* No await of the run sits in a try/catch and nothing re-issues a failed
\* operation: after a rejection of op the run awaits nothing.
AfterReject(op) == {}

\* runBenchmark(...) is called without await or catch, so a run's failure is
\* an unhandled rejection: the runtime either only logs it or ends the process.
UnhandledRejection == {"warn", "throw"}

\* As DetailsContinue, with the last detail section left out.
DetailsEndEarly(k, n) == k + 1 < n

\* The for...of loop over results.entries(): a detail section follows the
\* k-th exactly when a result is left.
DetailsContinue(k, n) == k < n

Section(r, kind, body) == [writer |-> r, kind |-> kind, body |-> body]

\* writeFile(`./results/benchmark-${benchmarkDateTime}.md`, text, {flag: 'a'})
AppendFile(fs, stamp, section) == [fs EXCEPT ![stamp] = Append(@, section)]

\* Run r throws: its promise rejects and nobody handles the rejection.
Reject(r, cause, awaited) ==
    /\ error' = [error EXCEPT ![r] = cause]
    /\ inflight' = [inflight EXCEPT ![r] = awaited]
    /\ pc' = [pc EXCEPT ![r] = IF awaited = {} THEN "failed" ELSE @]
    /\ ops' = ops
    /\ \E outcome \in UnhandledRejection :
           proc' = IF outcome = "throw" THEN "crashed" ELSE proc

\* Run r starts operation op and suspends on it.
Start(r, op, awaited, at) ==
    /\ inflight' = [inflight EXCEPT ![r] = awaited \cup {op}]
    /\ ops' = [ops EXCEPT ![r] = Append(@, op)]
    /\ pc' = [pc EXCEPT ![r] = at]
    /\ UNCHANGED << error, proc >>

\* The code of runBenchmark from the top of the request loop, with results
\* rs, up to its next await: the next request, or the aggregation and the
\* summary's write, or the TypeError of rendering an empty results list.
Proceed(r, rs, awaited) ==
    IF LoopContinues(Len(rs), Len(tests))
    THEN /\ Start(r, TestOp(Len(rs) + 1), awaited, "running")
         /\ UNCHANGED aggregate
    ELSE /\ aggregate' = [aggregate EXCEPT ![r] = Aggregate(rs)]
         /\ IF SummaryThrows(rs)
            THEN Reject(r, "TypeError", awaited)
            ELSE Start(r, SummaryOp, awaited, "summary")

\* --------------------------------------------------------------- actions
\* One iteration of the top-level loop: runBenchmark runs up to its first
\* await, the warm-up request.
Launch ==
    /\ proc = "running"
    /\ launched < testRuns
    /\ launched' = launched + 1
    /\ LET r == launched + 1 IN
        /\ benchmarkDateTime' = [benchmarkDateTime EXCEPT ![r] = benchmarkDateTimeOf(now)]
        /\ results' = [results EXCEPT ![r] = << >>]
        /\ Start(r, WarmupOp, {}, "warmup")
    /\ UNCHANGED << tests, testRuns, now, aggregate, files >>

\* A millisecond passes while the top-level loop runs; the clock is read
\* nowhere else.
Tick ==
    /\ launched < testRuns
    /\ now < MaxClock
    /\ now' = now + 1
    /\ UNCHANGED << tests, testRuns, launched, proc, pc, benchmarkDateTime,
                    results, inflight, ops, aggregate, error, files >>

\* The warm-up request of run r is answered.
WarmupDone(r, M) ==
    /\ proc = "running"
    /\ launched = testRuns
    /\ pc[r] = "warmup"
    /\ WarmupOp \in inflight[r]
    /\ \E meta \in M :
        \E result \in {benchmarkOllamaWithLangchain(WarmupPrompt, Reply(r, 0, meta))} :
            \E rs \in {Heatup(results[r], result)} :
                /\ results' = [results EXCEPT ![r] = rs]
                /\ Proceed(r, rs, inflight[r] \ {WarmupOp})
    /\ UNCHANGED << tests, testRuns, launched, now, benchmarkDateTime, files >>

\* A test request of run r is answered.
TestDone(r, M) ==
    /\ proc = "running"
    /\ launched = testRuns
    /\ pc[r] = "running"
    /\ \E op \in inflight[r], meta \in M :
        /\ op.kind = "test"
        /\ \E result \in {benchmarkOllamaWithLangchain(tests[op.idx], Reply(r, op.idx, meta))} :
               \E rs \in {Push(results[r], result)} :
                   /\ results' = [results EXCEPT ![r] = rs]
                   /\ Proceed(r, rs, inflight[r] \ {op})
    /\ UNCHANGED << tests, testRuns, launched, now, benchmarkDateTime, files >>

\* The summary's write of run r completes.
SummaryWritten(r) ==
    /\ proc = "running"
    /\ launched = testRuns
    /\ pc[r] = "summary"
    /\ SummaryOp \in inflight[r]
    /\ files' = AppendFile(files, benchmarkDateTime[r],
                           Section(r, "summary", summaryTemplate(aggregate[r], results[r], tests)))
    /\ IF DetailsContinue(0, Len(results[r]))
       THEN Start(r, DetailOp(1), inflight[r] \ {SummaryOp}, "detail")
       ELSE /\ pc' = [pc EXCEPT ![r] = "done"]
            /\ inflight' = [inflight EXCEPT ![r] = @ \ {SummaryOp}]
            /\ UNCHANGED << ops, error, proc >>
    /\ UNCHANGED << tests, testRuns, launched, now, benchmarkDateTime, results,
                    aggregate >>

\* A detail section's write of run r completes.
DetailWritten(r) ==
    /\ proc = "running"
    /\ launched = testRuns
    /\ pc[r] = "detail"
    /\ \E op \in inflight[r] :
        /\ op.kind = "detail"
        /\ files' = AppendFile(files, benchmarkDateTime[r],
                               Section(r, "detail", template(op.idx, results[r][op.idx])))
        /\ IF DetailsContinue(op.idx, Len(results[r]))
           THEN Start(r, DetailOp(op.idx + 1), inflight[r] \ {op}, "detail")
           ELSE /\ pc' = [pc EXCEPT ![r] = "done"]
                /\ inflight' = [inflight EXCEPT ![r] = @ \ {op}]
                /\ UNCHANGED << ops, error, proc >>
    /\ UNCHANGED << tests, testRuns, launched, now, benchmarkDateTime, results,
                    aggregate >>

\* A request of run r fails: the server is unreachable, or the answer carries
\* no usage metadata.
RequestFail(r) ==
    /\ proc = "running"
    /\ launched = testRuns
    /\ pc[r] \in {"warmup", "running"}
    /\ \E op \in inflight[r] :
        /\ op.kind \in {"warmup", "test"}
        /\ Reject(r, "request", (inflight[r] \ {op}) \cup AfterReject(op))
    /\ UNCHANGED << tests, testRuns, launched, now, benchmarkDateTime, results,
                    aggregate, files >>

\* A write of run r fails, for instance because ./results does not exist.
WriteFail(r) ==
    /\ proc = "running"
    /\ launched = testRuns
    /\ pc[r] \in {"summary", "detail"}
    /\ \E op \in inflight[r] :
        /\ op.kind \in {"summary", "detail"}
        /\ Reject(r, "write", (inflight[r] \ {op}) \cup AfterReject(op))
    /\ UNCHANGED << tests, testRuns, launched, now, benchmarkDateTime, results,
                    aggregate, files >>

Next ==
    \/ Launch
    \/ Tick
    \/ \E r \in Runs : WarmupDone(r, ConcMetas)
    \/ \E r \in Runs : TestDone(r, ConcMetas)
    \/ \E r \in Runs : SummaryWritten(r)
    \/ \E r \in Runs : DetailWritten(r)
    \/ \E r \in Runs : RequestFail(r)
    \/ \E r \in Runs : WriteFail(r)

\* The whole program: up to MaxRuns runs against one server and one directory.
Spec == Init /\ [][Next]_vars

\* The program as configured in the source, with testRuns = 1, and a server
\* whose answers vary more.
SeqInit == Init /\ testRuns = 1

SeqNext ==
    \/ Launch
    \/ Tick
    \/ WarmupDone(1, Metas)
    \/ TestDone(1, Metas)
    \/ SummaryWritten(1)
    \/ DetailWritten(1)
    \/ RequestFail(1)
    \/ WriteFail(1)

SeqSpec == SeqInit /\ [][SeqNext]_vars

\* One run in which no request and no write fails, and every pending
\* operation is eventually served.
NextOK ==
    \/ Launch
    \/ Tick
    \/ WarmupDone(1, Metas)
    \/ TestDone(1, Metas)
    \/ SummaryWritten(1)
    \/ DetailWritten(1)

FairSpec == SeqInit /\ [][NextOK]_vars /\ WF_vars(NextOK)

\* ================================================================ claims
IsPrefix(s, t) == Len(s) <= Len(t) /\ s = SubSeq(t, 1, Len(s))

\* The sections run r has appended, in order.
Written(r) ==
    IF benchmarkDateTime[r] = << >> THEN << >>
    ELSE SelectSeq(files[benchmarkDateTime[r]], LAMBDA x : x.writer = r)

\* Every section of every report, as a set of <<stamp, position>>.
Sections == UNION { { << st, i >> : i \in DOMAIN files[st] } : st \in Stamps }
SectionAt(sp) == files[sp[1]][sp[2]]
Summaries == { sp \in Sections : SectionAt(sp).kind = "summary" }
Details == { sp \in Sections : SectionAt(sp).kind = "detail" }

\* Sums over a results list, by position.
RECURSIVE SumInt(_, _, _)
SumInt(rs, f, k) == IF k = 0 THEN 0 ELSE SumInt(rs, f, k - 1) + rs[k][f]

RECURSIVE SumNum(_, _, _)
SumNum(rs, f, k) == IF k = 0 THEN Num(0) ELSE NumAdd(SumNum(rs, f, k - 1), rs[k][f])

\* The rate of one result, from its token count and its elapsed time.
RateOf(result) == NumDiv(Num(result.totalTokens), result.elapsedTime)

RECURSIVE SumRates(_, _)
SumRates(rs, k) == IF k = 0 THEN Num(0) ELSE NumAdd(SumRates(rs, k - 1), RateOf(rs[k]))

MeanRate(rs) == NumDiv(SumRates(rs, Len(rs)), Num(Len(rs)))
TotalRate(rs) ==
    NumDiv(Num(SumInt(rs, "totalTokens", Len(rs))), SumNum(rs, "elapsedTime", Len(rs)))
RatesVary(rs) == \E i, j \in DOMAIN rs : RateOf(rs[i]) # RateOf(rs[j])

\* y is x written with two decimals: a multiple of 1/100 within 1/200 of x.
Abs(k) == IF k < 0 THEN -k ELSE k
IsRounded2(y, x) ==
    /\ y[2] # 0 /\ x[2] # 0
    /\ (100 * y[1]) % y[2] = 0
    /\ 200 * Abs(y[1] * x[2] - x[1] * y[2]) <= y[2] * x[2]

\* The operations of a run over n prompts, in program order.
ExpectedOps(n) ==
    << WarmupOp >> \o [i \in 1..n |-> TestOp(i)] \o << SummaryOp >>
        \o [i \in 1..n |-> DetailOp(i)]

Started(r, kinds) == { i \in DOMAIN ops[r] : ops[r][i].kind \in kinds }

\* ---- C1
\* C1 (as claimed): any two launched runs have different file-name
\* timestamps, no report holds sections of two different runs, and every
\* result a run has recorded answers a request of that run.
C1_DistinctReports ==
    /\ \A a, b \in 1..launched : a # b => benchmarkDateTime[a] # benchmarkDateTime[b]
    /\ \A x, y \in Sections : x[1] = y[1] => SectionAt(x).writer = SectionAt(y).writer
    /\ \A r \in Runs : \A i \in DOMAIN results[r] : results[r][i].response[1] = r

\* ---- C2
\* C2: the operations a run has started are a prefix of warm-up, test 1..N,
\* summary, detail 1..N; the run awaits at most one operation, the one it
\* started last; and no write is started before results holds all N results.
C2_StrictOrder ==
    \A r \in Runs :
        /\ IsPrefix(ops[r], ExpectedOps(Len(tests)))
        /\ Cardinality(inflight[r]) <= 1
        /\ \A op \in inflight[r] : ops[r] # << >> /\ op = ops[r][Len(ops[r])]
        /\ Started(r, {"summary", "detail"}) # {} => Len(results[r]) = Len(tests)

\* A run over two prompts is writing its second detail section.
C2_Witness ==
    /\ Len(tests) = 2
    /\ pc[1] = "detail"
    /\ DetailOp(2) \in inflight[1]

\* ---- C3
\* C3: no recorded result is the warm-up's (prompt "Hello", answer to request
\* 0), the summary counts and lists only the configured prompts, and no
\* detail section carries the warm-up's prompt or answer.
C3_WarmupDiscarded ==
    /\ \A r \in Runs : \A i \in DOMAIN results[r] :
           /\ results[r][i].query # WarmupPrompt
           /\ results[r][i].response # << r, 0 >>
    /\ \A sp \in Summaries :
           /\ SectionAt(sp).body.TotalTests = Len(tests)
           /\ \A i \in DOMAIN SectionAt(sp).body.TestPrompts :
                  SectionAt(sp).body.TestPrompts[i] # WarmupPrompt
    /\ \A sp \in Details :
           /\ SectionAt(sp).body.Prompt # WarmupPrompt
           /\ SectionAt(sp).body.Response # << SectionAt(sp).writer, 0 >>

\* The warm-up was answered, a result is recorded and the report is complete.
C3_Witness ==
    /\ pc[1] = "done"
    /\ Len(results[1]) = 1
    /\ Len(Written(1)) = 2

\* ---- C4
\* C4: the step in which a run fails leaves it awaiting nothing and starts
\* nothing; a run that has failed never changes again (no request, no
\* write, no retry); and no step removes or changes a section of a report.
C4_FailureTerminal ==
    [][ /\ \A r \in Runs :
            /\ (error[r] = "none" /\ error'[r] # "none") =>
                   /\ pc'[r] = "failed"
                   /\ inflight'[r] = {}
                   /\ ops'[r] = ops[r]
            /\ error[r] # "none" =>
                   /\ error'[r] = error[r]
                   /\ pc'[r] = pc[r]
                   /\ inflight'[r] = inflight[r]
                   /\ ops'[r] = ops[r]
                   /\ Written(r)' = Written(r)
        /\ \A st \in Stamps : IsPrefix(files[st], files'[st]) ]_vars

\* A write failed after the summary and the first detail section were appended.
C4_Witness ==
    /\ error[1] = "write"
    /\ pc[1] = "failed"
    /\ Len(Written(1)) = 2

\* ---- C5
\* C5 (as claimed): when a run has failed, every other run that awaits an
\* operation can still have it served and go on.
C5_OthersUnaffected ==
    \A a, b \in Runs :
        (a # b /\ error[a] # "none" /\ inflight[b] # {}) =>
            ENABLED (\/ WarmupDone(b, ConcMetas)
                     \/ TestDone(b, ConcMetas)
                     \/ SummaryWritten(b)
                     \/ DetailWritten(b))

\* ---- C6
\* The averages run r has computed are all NaN.
AveragesNaN(r) ==
    LET a == aggregate[r]
    IN  /\ a # << >>
        /\ a.averageTime = NaN
        /\ a.averageInputTokens = NaN
        /\ a.averageOutputTokens = NaN
        /\ a.averageTotalTokens = NaN
        /\ a.averageTokensPerSecond = NaN

\* The warm-up of run r was answered.
WarmedUp(r) == pc[r] \notin {"idle", "warmup"} /\ ~(error[r] = "request" /\ Len(ops[r]) = 1)

\* C6 (as claimed): with an empty prompt list the averages are NaN and a run
\* whose warm-up was answered signals no error of its own: it goes on to
\* write its report.
C6_EmptyWritesReport ==
    \A r \in Runs :
        (Len(tests) = 0 /\ WarmedUp(r)) =>
            /\ AveragesNaN(r)
            /\ error[r] # "TypeError"
            /\ Started(r, {"summary"}) # {}

\* C6 (amended): with an empty prompt list the averages are NaN, and a run
\* whose warm-up was answered throws a TypeError while rendering the summary
\* (results[0] is undefined): it aborts having started no write and having
\* written nothing.
C6_EmptyThrows ==
    \A r \in Runs :
        (Len(tests) = 0 /\ WarmedUp(r)) =>
            /\ AveragesNaN(r)
            /\ error[r] = "TypeError"
            /\ pc[r] = "failed"
            /\ ops[r] = << WarmupOp >>
            /\ Written(r) = << >>

\* A run over no prompts has thrown after its warm-up.
C6_Witness ==
    /\ Len(tests) = 0
    /\ error[1] = "TypeError"
    /\ inflight[1] = {}

\* ---- C7
\* The token totals of a summary are the sums over its writer's results.
TokenTotalsExact(sp) ==
    LET b == SectionAt(sp).body
        rs == results[SectionAt(sp).writer]
    IN  /\ rs # << >>
        /\ b.TotalTokens = SumInt(rs, "totalTokens", Len(rs))
        /\ b.TotalPromptTokens = SumInt(rs, "inputTokens", Len(rs))
        /\ b.TotalResponseTokens = SumInt(rs, "outputTokens", Len(rs))

\* C7 (as claimed): in every summary the three token totals are the sums over
\* the recorded results and Total Time is the sum of their elapsed times.
C7_TotalsAreSums ==
    \A sp \in Summaries :
        /\ TokenTotalsExact(sp)
        /\ SectionAt(sp).body.TotalTime =
               SumNum(results[SectionAt(sp).writer], "elapsedTime",
                      Len(results[SectionAt(sp).writer]))

\* C7 (amended): in every summary the three token totals are the sums over
\* the recorded results, and Total Time is the sum of their elapsed times
\* written with two decimals.
C7_TotalsAreSumsRounded ==
    \A sp \in Summaries :
        /\ TokenTotalsExact(sp)
        /\ IsRounded2(SectionAt(sp).body.TotalTime,
                      SumNum(results[SectionAt(sp).writer], "elapsedTime",
                             Len(results[SectionAt(sp).writer])))

\* A summary over two results whose Total Time is not the exact sum.
C7_Witness ==
    \E sp \in Summaries :
        /\ SectionAt(sp).body.TotalTests = 2
        /\ SectionAt(sp).body.TotalTokens = 10
        /\ SectionAt(sp).body.TotalTime #
               SumNum(results[SectionAt(sp).writer], "elapsedTime", 2)

\* ---- C8
\* The runs that have computed their totals and averages.
Aggregated == { r \in Runs : aggregate[r] # << >> /\ results[r] # << >> }

\* The averages run r has computed are sum over count, and its mean
\* tokens-per-second is the mean of the per-test rates.
AveragesExact(r) ==
    LET a == aggregate[r]
        rs == results[r]
        n == Num(Len(rs))
    IN  /\ a.averageTime = NumDiv(SumNum(rs, "elapsedTime", Len(rs)), n)
        /\ a.averageInputTokens = NumDiv(Num(SumInt(rs, "inputTokens", Len(rs))), n)
        /\ a.averageOutputTokens = NumDiv(Num(SumInt(rs, "outputTokens", Len(rs))), n)
        /\ a.averageTotalTokens = NumDiv(Num(SumInt(rs, "totalTokens", Len(rs))), n)
        /\ a.averageTokensPerSecond = MeanRate(rs)

PhaseRank(p) ==
    CASE p = "idle" -> 0
      [] p = "warmup" -> 1
      [] p = "running" -> 2
      [] p = "summary" -> 3
      [] p = "detail" -> 4
      [] p = "done" -> 5
      [] OTHER -> 6

\* C9: a run never moves back to an earlier phase and within the request
\* loop its results only grow in number; with every request and write served,
\* a run over N >= 1 prompts reaches Done; and a run that is Done has issued
\* N + 1 requests and appended N + 1 sections.
C9_PhasesAndTermination ==
    /\ [][\A r \in Runs :
              /\ PhaseRank(pc'[r]) >= PhaseRank(pc[r])
              /\ Len(results'[r]) >= Len(results[r])]_vars
    /\ (Len(tests) >= 1 => <>(pc[1] = "done"))
    /\ [](\A r \in Runs : pc[r] = "done" =>
              /\ Cardinality(Started(r, {"warmup", "test"})) = Len(tests) + 1
              /\ Cardinality(Started(r, {"summary", "detail"})) = Len(tests) + 1
              /\ Len(Written(r)) = Len(tests) + 1)

\* A run over two prompts is Done with three sections written.
C9_Witness ==
    /\ Len(tests) = 2
    /\ pc[1] = "done"
    /\ Len(Written(1)) = 3
    /\ Len(ops[1]) = 6

\* ---- C10
\* The test requests of run r that were answered.
Answered(r) ==
    { i \in Started(r, {"test"}) :
          /\ ops[r][i] \notin inflight[r]
          /\ ~(error[r] = "request" /\ i = Len(ops[r])) }

\* C10: results has one entry per answered test request, entry i carrying
\* prompt i and the answer to request i; results changes only by appending;
\* every summary counts as many tests as there are prompts, and the section
\* "Test i" carries prompt i and the answer to request i.
C10_ResultsAligned ==
    /\ [](\A r \in Runs :
              /\ Len(results[r]) = Cardinality(Answered(r))
              /\ \A i \in DOMAIN results[r] :
                     /\ results[r][i].query = tests[i]
                     /\ results[r][i].response = << r, i >>)
    /\ [][\A r \in Runs : IsPrefix(results[r], results'[r])]_vars
    /\ [](\A sp \in Summaries : SectionAt(sp).body.TotalTests = Len(tests))
    /\ [](\A sp \in Details :
              LET b == SectionAt(sp).body
              IN  /\ b.Test \in 1..Len(tests)
                  /\ b.Prompt = tests[b.Test]
                  /\ b.Response = << SectionAt(sp).writer, b.Test >>)

\* Both results of a run over two prompts are recorded and the second
\* detail section is in the report.
C10_Witness ==
    /\ Len(results[1]) = 2
    /\ \E sp \in Details : SectionAt(sp).body.Test = 2 /\ SectionAt(sp).body.Prompt = "q2"

====
